---------------------------- MODULE Spec2Model ----------------------------
(***************************************************************************)
(* Model of PruebaBlockchain/Get.py (reader) and                           *)
(* PruebaBlockchain/Insertar.py (writer).                                  *)
(*                                                                         *)
(* A Python str is a sequence of characters, each character a one-char     *)
(* string (a non-ASCII character is written by its code point name, e.g.   *)
(* "U+00E9").  A bytes value is a sequence of integers 0..255.             *)
(***************************************************************************)
EXTENDS Integers, Sequences, FiniteSets, TLC

VARIABLES
    tool,       \* which script runs: "Get", "Insertar" (or "fn": a single function call)
    env,        \* the process environment after load_dotenv()
    argv,       \* the command-line arguments after the program name
    pc,         \* position of main()
    net,        \* the requests made to the node so far, in order
    out,        \* the lines printed so far, in order
    exit,       \* "running", "return", "raise" (unhandled exception), "usage" (argparse exit)
    locals,     \* the local variables of main() that later steps use
    fn,         \* function-call harness: the function applied ("none" before the call)
    fn_in,      \* function-call harness: <<>> (argument omitted) or <<s>>
    ret         \* function-call harness: what the call returned or raised

vars == <<tool, env, argv, pc, net, out, exit, locals, fn, fn_in, ret>>

---------------------------------------------------------------------------
(* Characters *)

Printable ==
   << " ", "!", "\"", "#", "$", "%", "&", "'", "(", ")", "*", "+",
      ",", "-", ".", "/", "0", "1", "2", "3", "4", "5", "6", "7",
      "8", "9", ":", ";", "<", "=", ">", "?", "@", "A", "B", "C",
      "D", "E", "F", "G", "H", "I", "J", "K", "L", "M", "N", "O",
      "P", "Q", "R", "S", "T", "U", "V", "W", "X", "Y", "Z", "[",
      "\\", "]", "^", "_", "U+0060", "a", "b", "c", "d", "e", "f", "g",
      "h", "i", "j", "k", "l", "m", "n", "o", "p", "q", "r", "s",
      "t", "u", "v", "w", "x", "y", "z", "{", "|", "}", "~" >>

\* ord(c): the code point of a character.
CodePoint(c) ==
    IF \E i \in DOMAIN Printable : Printable[i] = c
    THEN 31 + (CHOOSE i \in DOMAIN Printable : Printable[i] = c)
    ELSE CASE c = "U+00E9" -> 233
           [] c = "U+20AC" -> 8364
           [] OTHER -> 65533

LowerHex == <<"0","1","2","3","4","5","6","7","8","9","a","b","c","d","e","f">>
UpperHex == <<"0","1","2","3","4","5","6","7","8","9","A","B","C","D","E","F">>

IsHexDigit(c) ==
    \E i \in 1..16 : LowerHex[i] = c \/ UpperHex[i] = c

HexVal(c) ==
    (CHOOSE i \in 1..16 : LowerHex[i] = c \/ UpperHex[i] = c) - 1

\* str.encode("utf-8") of one character (code points up to U+FFFF).
EncodeChar(c) ==
    LET cp == CodePoint(c) IN
    IF cp < 128 THEN <<cp>>
    ELSE IF cp < 2048 THEN <<192 + (cp \div 64), 128 + (cp % 64)>>
    ELSE <<224 + (cp \div 4096), 128 + ((cp \div 64) % 64), 128 + (cp % 64)>>

RECURSIVE EncodeUtf8(_)
EncodeUtf8(s) ==
    IF s = <<>> THEN <<>> ELSE EncodeChar(Head(s)) \o EncodeUtf8(Tail(s))

---------------------------------------------------------------------------
(* What a call returns: a bytes value, or the exception it raised.         *)
(* kind "raw": data are the bytes.  kind "keccak": the Keccak-256 digest   *)
(* of data, kept as a term (the digest function is the node library and    *)
(* is not computed here); its length is KeccakSize.                        *)

KeccakSize == 32

Returned(k, d) == [exc |-> "none", kind |-> k, data |-> d]
Raised(e)      == [exc |-> e, kind |-> "none", data |-> <<>>]

NumBytes(r) == IF r.kind = "keccak" THEN KeccakSize ELSE Len(r.data)

\* str.startswith("0x")
StartsWith0x(s) == Len(s) >= 2 /\ s[1] = "0" /\ s[2] = "x"

\* eth_utils.remove_0x_prefix: drops a leading "0x" or "0X".
remove_0x_prefix(s) ==
    IF Len(s) >= 2 /\ s[1] = "0" /\ s[2] \in {"x", "X"}
    THEN SubSeq(s, 3, Len(s)) ELSE s

\* binascii.unhexlify of the ASCII encoding of s; binascii.Error and
\* UnicodeEncodeError are both subclasses of ValueError.
unhexlify(s) ==
    IF \E i \in DOMAIN s : CodePoint(s[i]) >= 128 THEN Raised("ValueError")
    ELSE IF Len(s) % 2 = 1 THEN Raised("ValueError")
    ELSE IF \E i \in DOMAIN s : ~IsHexDigit(s[i]) THEN Raised("ValueError")
    ELSE Returned("raw",
            [i \in 1..(Len(s) \div 2) |-> 16 * HexVal(s[2*i - 1]) + HexVal(s[2*i])])

\* w3.to_bytes(hexstr=s): an odd number of characters is left-padded with 0.
to_bytes_hexstr(s) ==
    IF Len(s) % 2 = 1
    THEN unhexlify(<<"0">> \o remove_0x_prefix(s))
    ELSE unhexlify(remove_0x_prefix(s))

\* w3.keccak(text=s): Keccak-256 of the UTF-8 encoding of s.
keccak_text(s) == Returned("keccak", EncodeUtf8(s))

HexStrLen == 66

\* Mutant: the length test forgets the two characters of the prefix.
Mut_Get_parse_prescription_id(id_str) ==
    IF StartsWith0x(id_str) /\ Len(id_str) = HexStrLen - 2
    THEN to_bytes_hexstr(id_str)
    ELSE keccak_text(id_str)

\* Get.py parse_prescription_id
Get_parse_prescription_id(id_str) ==
    IF StartsWith0x(id_str) /\ Len(id_str) = HexStrLen
    THEN to_bytes_hexstr(id_str)
    ELSE keccak_text(id_str)

\* Mutant: the writer takes the prefix in either case, as the library does.
Mut_Insertar_parse_prescription_id(value) ==
    IF value # remove_0x_prefix(value) /\ Len(value) = HexStrLen
    THEN to_bytes_hexstr(value)
    ELSE keccak_text(value)

\* Insertar.py parse_prescription_id
Insertar_parse_prescription_id(value) ==
    IF StartsWith0x(value) /\ Len(value) = HexStrLen
    THEN to_bytes_hexstr(value)
    ELSE keccak_text(value)

\* Mutant: the content hash falls back to hashing, like the id.
Mut_parse_content_hash(hex_str) ==
    IF StartsWith0x(hex_str) /\ Len(hex_str) = HexStrLen
    THEN to_bytes_hexstr(hex_str)
    ELSE keccak_text(hex_str)

\* Insertar.py parse_content_hash
parse_content_hash(hex_str) ==
    IF ~(StartsWith0x(hex_str) /\ Len(hex_str) = HexStrLen)
    THEN Raised("ValueError")
    ELSE to_bytes_hexstr(hex_str)

IsSpace(c) == c \in {" ", "\t", "\n", "\r", "\f"}

\* bytes.fromhex: whitespace between bytes is skipped, the two digits of a
\* byte are adjacent; anything else raises ValueError.
RECURSIVE fromhex_from(_, _, _)
fromhex_from(s, i, acc) ==
    IF i > Len(s) THEN Returned("raw", acc)
    ELSE IF IsSpace(s[i]) THEN fromhex_from(s, i + 1, acc)
    ELSE IF ~IsHexDigit(s[i]) THEN Raised("ValueError")
    ELSE IF i + 1 > Len(s) \/ ~IsHexDigit(s[i + 1]) THEN Raised("ValueError")
    ELSE fromhex_from(s, i + 2, Append(acc, 16 * HexVal(s[i]) + HexVal(s[i + 1])))

bytes_fromhex(s) == fromhex_from(s, 1, <<>>)

\* argparse: signature has nargs="?" and default "0x"; rest is what follows
\* the two required arguments.
signature_arg(rest) == IF rest = <<>> THEN <<"0", "x">> ELSE rest[1]

\* Mutant: the prefix is not added.
Mut_sig_prefixed(sig) == sig

\* Insertar.py main, step 7: sig with the prefix added when it is missing.
sig_prefixed(sig) == IF ~StartsWith0x(sig) THEN <<"0", "x">> \o sig ELSE sig

\* Insertar.py main, step 7: sig_bytes
sig_bytes_of(sig) ==
    LET s == sig_prefixed(sig) IN bytes_fromhex(SubSeq(s, 3, Len(s)))

---------------------------------------------------------------------------
(* Input strings *)

LenSlack  == 1      \* body lengths tried on each side of HexStrLen - 2
MaxSigLen == 3      \* longest enumerated signature body

Str_0x == <<"0", "x">>

\* n characters alternating pat[1], pat[2], with character bad at position at
\* (at = 0: none; below, at < 0 stands for the last position).
Body(n, pat, at, bad) ==
    [i \in 1..n |-> IF i = at THEN bad ELSE pat[((i - 1) % 2) + 1]]

BodyLens == ((HexStrLen - 2 - LenSlack)..(HexStrLen - 2 + LenSlack)) \cup {HexStrLen}

\* Strings around the 0x + 64 hex digits shape: right and wrong prefixes,
\* lengths, digits in both cases, one character that is no hex digit.
ShapeStrings ==
    { pre \o Body(n, pat, IF b[1] < 0 THEN n ELSE b[1], b[2]) :
        pre \in {Str_0x, <<"0", "X">>, <<>>},
        n   \in BodyLens,
        pat \in {<<"a", "b">>, <<"F", "0">>},
        b   \in {<<0, "z">>, <<1, "z">>, <<-1, "g">>, <<-1, "U+00E9">>,
                 <<-1, " ">>} }

TextStrings ==
    { <<"P", "R", "E", "S", "C", "-", "0", "0", "1">>,
      <<>>,
      Str_0x \o <<"d", "e", "a", "d", "b", "e", "e", "f">>,
      <<"a", "b", "c", "d">>,
      Str_0x \o <<"a", "b", "c", "d">>,
      <<"U+00E9">>,
      <<"r", "U+20AC", "c">> }

SigAlphabet == {"a", "D", "z", " "}

SigBodies == UNION { [1..n -> SigAlphabet] : n \in 0..MaxSigLen }

SigStrings == { pre \o b : pre \in {Str_0x, <<>>}, b \in SigBodies }

FnStrings == ShapeStrings \cup TextStrings \cup SigStrings

---------------------------------------------------------------------------
(* One run of a script *)

MaxNonce == 1       \* transaction counts the node may answer: 0..MaxNonce
MaxBlock == 1       \* block numbers a receipt may carry: 0..MaxBlock

Gas      == 300000
GasPrice == 0

EnvValues ==
    [ FARMACIA_RPC     : {"unset", "empty", "valid"},
      HOSPITAL_RPC     : {"unset", "empty", "valid"},
      PRIVATE_KEY      : {"unset", "empty", "valid", "invalid"},
      CONTRACT_ADDRESS : {"unset", "empty", "valid", "invalid"} ]

HexAB == Str_0x \o Body(HexStrLen - 2, <<"a", "b">>, 0, "z")
HexF0 == Str_0x \o Body(HexStrLen - 2, <<"F", "0">>, 0, "z")
BadHex == Str_0x \o Body(HexStrLen - 2, <<"a", "b">>, HexStrLen - 2, "g")
Presc001 == <<"P", "R", "E", "S", "C", "-", "0", "0", "1">>
DeadBeef == Str_0x \o <<"d", "e", "a", "d", "b", "e", "e", "f">>

RunIds    == {HexAB, BadHex, Presc001, DeadBeef}
RunHashes == {HexF0, BadHex, Presc001, DeadBeef}
RunSigs   == {<<>>, Str_0x, <<"a", "b", "c", "d">>, Str_0x \o <<"a", "b", "c", "d">>,
              <<"z", "z">>, Str_0x \o <<"a">>}

RunArgvs ==
    {<<>>} \cup { <<i>> : i \in RunIds }
           \cup { <<i, h>> : i \in RunIds, h \in RunHashes }
           \cup { <<i, h, s>> : i \in RunIds, h \in RunHashes, s \in RunSigs }

\* Mutant: only an unset variable counts as missing (a test against None).
Mut_Truthy(v) == v # "unset"

\* Python truthiness of os.getenv(...): None and "" are false.
Truthy(v) == v \notin {"unset", "empty"}

\* print(...)
Line(kind, info) == [kind |-> kind, info |-> info]

\* a request to the node
Request(op, arg) == [op |-> op, arg |-> arg]

\* main() ends: by return, by an exception nobody catches, or by argparse.
Ends(how, lines) ==
    /\ pc' = "done"
    /\ exit' = how
    /\ out' = out \o lines

Goes(to) ==
    /\ pc' = to
    /\ UNCHANGED <<exit, out>>

Set(name, v) == locals' = (name :> v) @@ locals

NoFn == fn = "none" /\ fn_in = <<>> /\ ret = Raised("none")

InitRun ==
    /\ tool \in {"Get", "Insertar"}
    /\ env \in EnvValues
    /\ argv \in RunArgvs
    /\ pc = "start"
    /\ net = <<>>
    /\ out = <<>>
    /\ exit = "running"
    /\ locals = <<>>
    /\ NoFn

Frame == UNCHANGED <<tool, env, argv, fn, fn_in, ret>>

---------------------------------------------------------------------------
(* Insertar.py main *)

Insertar_env_ok ==
    Truthy(env.HOSPITAL_RPC) /\ Truthy(env.PRIVATE_KEY) /\ Truthy(env.CONTRACT_ADDRESS)

\* 1) load the environment
Insertar_LoadEnv ==
    /\ tool = "Insertar" /\ pc = "start"
    /\ IF ~Insertar_env_ok
       THEN Ends("return", <<Line("config_error", <<>>)>>)
       ELSE Goes("connect")
    /\ UNCHANGED <<net, locals>>
    /\ Frame

\* 2) provider and liveness check
Insertar_Connect ==
    /\ tool = "Insertar" /\ pc = "connect"
    /\ net' = Append(net, Request("is_connected", <<>>))
    /\ \E up \in BOOLEAN :
          /\ Set("connected", up)
          /\ IF ~up
             THEN Ends("return", <<Line("connection_error", <<>>)>>)
             ELSE Goes("account")
    /\ Frame

\* 3), 4) signing account and contract object
Insertar_LoadAccount ==
    /\ tool = "Insertar" /\ pc = "account"
    /\ IF env.PRIVATE_KEY = "invalid" \/ env.CONTRACT_ADDRESS = "invalid"
       THEN Ends("raise", <<>>) /\ UNCHANGED locals
       ELSE Goes("args") /\ Set("contract", "registerPrescription")
    /\ UNCHANGED net
    /\ Frame

\* Mutant: the handler names another exception.
Mut_Insertar_caught(e) == e = "TypeError"

\* except ValueError (line 94)
Insertar_caught(e) == e = "ValueError"

\* 5), 6), 7) command line, the two keys, the signature
Insertar_ParseArgs ==
    /\ tool = "Insertar" /\ pc = "args"
    /\ UNCHANGED net
    /\ Frame
    /\ IF Len(argv) \notin {2, 3}
       THEN Ends("usage", <<>>) /\ UNCHANGED locals
       ELSE
         LET presc == Insertar_parse_prescription_id(argv[1])
             chash == parse_content_hash(argv[2])
             raised == IF presc.exc # "none" THEN presc.exc ELSE chash.exc
             sig   == sig_prefixed(signature_arg(SubSeq(argv, 3, Len(argv))))
             sig_bytes == sig_bytes_of(signature_arg(SubSeq(argv, 3, Len(argv))))
         IN  IF raised # "none"
             THEN /\ IF Insertar_caught(raised)
                     THEN Ends("return", <<Line("format_error", <<>>)>>)
                     ELSE Ends("raise", <<>>)
                  /\ UNCHANGED locals
             ELSE IF sig_bytes.exc # "none"
             THEN Ends("raise", <<>>) /\ UNCHANGED locals
             ELSE /\ Goes("nonce")
                  /\ locals' = [presc |-> presc, chash |-> chash, sig |-> sig,
                                sig_bytes |-> sig_bytes] @@ locals

\* 8) nonce
Insertar_GetNonce ==
    /\ tool = "Insertar" /\ pc = "nonce"
    /\ net' = Append(net, Request("get_transaction_count", <<>>))
    /\ Frame
    /\ \/ Ends("raise", <<>>) /\ UNCHANGED locals
       \/ \E n \in 0..MaxNonce : Goes("build") /\ Set("nonce", n)

\* 8) build_transaction; the chain id is asked of the node
Insertar_BuildTransaction ==
    /\ tool = "Insertar" /\ pc = "build"
    /\ net' = Append(net, Request("chain_id", <<>>))
    /\ Frame
    /\ \/ Ends("raise", <<>>) /\ UNCHANGED locals
       \/ /\ Goes("send")
          /\ Set("tx", [function |-> locals.contract,
                        args |-> <<locals.presc, locals.chash, locals.sig_bytes>>,
                        nonce |-> locals.nonce, gas |-> Gas, gasPrice |-> GasPrice])

\* 9) sign and send
Insertar_SignAndSend ==
    /\ tool = "Insertar" /\ pc = "send"
    /\ net' = Append(net, Request("send_raw_transaction", <<locals.tx>>))
    /\ Frame
    /\ \/ Ends("raise", <<>>) /\ UNCHANGED locals
       \/ Goes("wait") /\ Set("tx_hash", "hash")

\* 9), 10) wait for the receipt and report
Insertar_WaitReceipt ==
    /\ tool = "Insertar" /\ pc = "wait"
    /\ net' = Append(net, Request("wait_for_transaction_receipt", <<locals.tx_hash>>))
    /\ Frame
    /\ \/ Ends("raise", <<>>) /\ UNCHANGED locals
       \/ \E b \in 0..MaxBlock :
             /\ Set("receipt", b)
             /\ Ends("return",
                     <<Line("success", <<argv[1], argv[2], locals.sig>>),
                       Line("txHash", <<locals.tx_hash>>),
                       Line("blockNumber", <<b>>)>>)

---------------------------------------------------------------------------
(* Get.py main *)

Get_env_ok == Truthy(env.FARMACIA_RPC) /\ Truthy(env.CONTRACT_ADDRESS)

\* 1) load the environment
Get_LoadEnv ==
    /\ tool = "Get" /\ pc = "start"
    /\ IF ~Get_env_ok
       THEN Ends("return", <<Line("config_error", <<>>)>>)
       ELSE Goes("connect")
    /\ UNCHANGED <<net, locals>>
    /\ Frame

\* 2) provider and liveness check
Get_Connect ==
    /\ tool = "Get" /\ pc = "connect"
    /\ net' = Append(net, Request("is_connected", <<>>))
    /\ \E up \in BOOLEAN :
          /\ Set("connected", up)
          /\ IF ~up
             THEN Ends("return", <<Line("connection_error", <<>>)>>)
             ELSE Goes("contract")
    /\ Frame

\* 3) contract object
Get_Contract ==
    /\ tool = "Get" /\ pc = "contract"
    /\ IF env.CONTRACT_ADDRESS = "invalid"
       THEN Ends("raise", <<>>) /\ UNCHANGED locals
       ELSE Goes("args") /\ Set("contract", "getPrescription")
    /\ UNCHANGED net
    /\ Frame

\* 4) command line and the key
Get_ParseArgs ==
    /\ tool = "Get" /\ pc = "args"
    /\ UNCHANGED net
    /\ Frame
    /\ IF Len(argv) # 1
       THEN Ends("usage", <<>>) /\ UNCHANGED locals
       ELSE
         LET presc_id == Get_parse_prescription_id(argv[1])
         IN  IF presc_id.exc # "none"
             THEN Ends("raise", <<>>) /\ UNCHANGED locals
             ELSE Goes("call") /\ Set("presc_id", presc_id)

\* Mutant: the handler names another exception.
Mut_Get_caught(e) == e = "ValueError"

\* except ContractLogicError (line 71)
Get_caught(e) == e = "ContractLogicError"

\* what getPrescription(...).call() may do
CallOutcomes == {"record", "ContractLogicError", "ConnectionError"}

\* 5), 6) the call and the report
Get_Call ==
    /\ tool = "Get" /\ pc = "call"
    /\ net' = Append(net, Request("call", <<locals.contract, locals.presc_id>>))
    /\ Frame
    /\ \E r \in CallOutcomes :
          /\ Set("call", r)
          /\ IF r = "record"
             THEN Ends("return",
                       <<Line("found", <<argv[1]>>), Line("contentHash", <<>>),
                         Line("signature", <<>>), Line("issuedAt", <<>>),
                         Line("doctor", <<>>)>>)
             ELSE IF Get_caught(r)
             THEN Ends("return", <<Line("logic_error", <<"not found">>)>>)
             ELSE Ends("raise", <<>>)

---------------------------------------------------------------------------
(* Single calls of the functions: Init draws the argument, an action       *)
(* applies one function to it.                                             *)

NoRun ==
    /\ tool = "fn" /\ env = <<>> /\ argv = <<>> /\ pc = "done"
    /\ net = <<>> /\ out = <<>> /\ exit = "return" /\ locals = <<>>

InitFn ==
    /\ NoRun
    /\ fn = "none"
    /\ fn_in \in {<<>>} \cup { <<s>> : s \in FnStrings }
    /\ ret = Raised("none")

Applied(name, r) ==
    /\ tool = "fn"
    /\ fn = "none"
    /\ fn' = name
    /\ ret' = r
    /\ UNCHANGED <<tool, env, argv, pc, net, out, exit, locals, fn_in>>

Call_Get_parse_prescription_id ==
    /\ fn_in # <<>>
    /\ Applied("Get.parse_prescription_id", Get_parse_prescription_id(fn_in[1]))

Call_Insertar_parse_prescription_id ==
    /\ fn_in # <<>>
    /\ Applied("Insertar.parse_prescription_id",
               Insertar_parse_prescription_id(fn_in[1]))

Call_parse_content_hash ==
    /\ fn_in # <<>>
    /\ Applied("Insertar.parse_content_hash", parse_content_hash(fn_in[1]))

\* The optional signature argument, through argparse and step 7 of main.
Call_sig_bytes ==
    /\ Len(fn_in) <= 1
    /\ Applied("Insertar.sig_bytes", sig_bytes_of(signature_arg(fn_in)))

Init == InitRun \/ InitFn

Next ==
    \/ Insertar_LoadEnv
    \/ Insertar_Connect
    \/ Insertar_LoadAccount
    \/ Insertar_ParseArgs
    \/ Insertar_GetNonce
    \/ Insertar_BuildTransaction
    \/ Insertar_SignAndSend
    \/ Insertar_WaitReceipt
    \/ Get_LoadEnv
    \/ Get_Connect
    \/ Get_Contract
    \/ Get_ParseArgs
    \/ Get_Call
    \/ Call_Get_parse_prescription_id
    \/ Call_Insertar_parse_prescription_id
    \/ Call_parse_content_hash
    \/ Call_sig_bytes

Spec == Init /\ [][Next]_vars

---------------------------------------------------------------------------
(* Properties *)

\* 0x followed by 64 hex digits
IsHexShape(s) ==
    /\ Len(s) = 66
    /\ s[1] = "0" /\ s[2] = "x"
    /\ \A i \in 3..66 : IsHexDigit(s[i])

\* the 32 bytes such a string spells
DecodedBytes(s) ==
    [i \in 1..32 |-> 16 * HexVal(s[2*i + 1]) + HexVal(s[2*i + 2])]

AllHexDigits(s) == \A i \in DOMAIN s : IsHexDigit(s[i])

\* the bytes an even number of hex digits spells
PairBytes(h) ==
    [i \in 1..(Len(h) \div 2) |-> 16 * HexVal(h[2*i - 1]) + HexVal(h[2*i])]

Has(name) == name \in DOMAIN locals

Asked(op) == \E i \in DOMAIN net : net[i].op = op

Printed(kind) == \E i \in DOMAIN out : out[i].kind = kind

OnlyLivenessCheck == net = <<Request("is_connected", <<>>)>>

FormatErrorOnly == out = <<Line("format_error", <<>>)>>

\* the writer has read its command line: two or three arguments were given
WriterParsed ==
    /\ tool = "Insertar"
    /\ Has("contract")
    /\ pc # "args"
    /\ Len(argv) \in {2, 3}

SigArg == signature_arg(SubSeq(argv, 3, Len(argv)))

BadId   == StartsWith0x(argv[1]) /\ Len(argv[1]) = 66 /\ ~IsHexShape(argv[1])
BadHash == ~IsHexShape(argv[2])
BadSig  ==
    bytes_fromhex(IF StartsWith0x(SigArg) THEN SubSeq(SigArg, 3, Len(SigArg))
                  ELSE SigArg).exc # "none"

IdCall == fn \in {"Get.parse_prescription_id", "Insertar.parse_prescription_id"}

C2_NoPartialSuccess ==
    (tool = "Insertar" /\ pc = "done" /\ Asked("send_raw_transaction") /\ Has("tx_hash"))
    => /\ Has("receipt")
       /\ Printed("txHash") /\ Printed("blockNumber")

\* C3 as stated: a writer run that has read a command line with a malformed
\* content hash or signature has returned with the format error printed,
\* without building a transaction, and not by an uncaught exception.
C3_FormatErrorsReported ==
    (WriterParsed /\ (BadHash \/ BadSig))
    => /\ pc = "done"
       /\ exit = "return"
       /\ FormatErrorOnly
       /\ ~Has("tx") /\ ~Asked("chain_id")

Missing(v) == v \in {"unset", "empty"}

MissingEnv ==
    \/ tool = "Get" /\ (Missing(env.FARMACIA_RPC) \/ Missing(env.CONTRACT_ADDRESS))
    \/ tool = "Insertar" /\ (\/ Missing(env.HOSPITAL_RPC)
                             \/ Missing(env.PRIVATE_KEY)
                             \/ Missing(env.CONTRACT_ADDRESS))

\* C4: a run of either script with a required environment variable unset or
\* empty never makes a request to the node and never gets past the first
\* step, whatever its arguments: it prints the configuration message and
\* returns.
C4_MissingEnvNoNetwork ==
    MissingEnv
    => /\ net = <<>>
       /\ DOMAIN locals = {}
       /\ pc \in {"start", "done"}
       /\ pc = "done" => (exit = "return" /\ out = <<Line("config_error", <<>>)>>)

C4_Witness ==
    /\ tool = "Insertar"
    /\ env.HOSPITAL_RPC = "valid" /\ env.CONTRACT_ADDRESS = "valid"
    /\ env.PRIVATE_KEY = "empty"
    /\ Len(argv) = 3
    /\ pc = "done" /\ Printed("config_error")

\* C5: in the reader, a failed liveness check is reported and main returns
\* without any contract call; a ContractLogicError of getPrescription is
\* caught, its message is the only thing printed, and main returns.
C5_ReaderFailures ==
    tool = "Get"
    => /\ (Has("connected") /\ ~locals.connected)
          => /\ pc = "done" /\ exit = "return"
             /\ out = <<Line("connection_error", <<>>)>>
             /\ ~Asked("call")
       /\ (Has("call") /\ locals.call = "ContractLogicError")
          => /\ pc = "done" /\ exit = "return"
             /\ out = <<Line("logic_error", <<"not found">>)>>

C5_Witness ==
    /\ tool = "Get"
    /\ Has("call") /\ locals.call = "ContractLogicError"
    /\ pc = "done" /\ Printed("logic_error")

C7_OtherIdHashed ==
    (IdCall /\ ~IsHexShape(fn_in[1]))
    => ret = Returned("keccak", EncodeUtf8(fn_in[1]))

\* C8: parse_content_hash raises on every argument that is not 0x + 64 hex
\* digits and never hashes; on 0x + 64 hex digits it returns the 32 bytes the
\* digits spell.
C8_StrictContentHash ==
    fn = "Insertar.parse_content_hash"
    => /\ ret.kind # "keccak"
       /\ ~IsHexShape(fn_in[1]) => ret = Raised("ValueError")
       /\ IsHexShape(fn_in[1]) => ret = Returned("raw", DecodedBytes(fn_in[1]))

C8_Witness ==
    /\ fn = "Insertar.parse_content_hash"
    /\ fn_in = <<Presc001>>
    /\ Insertar_parse_prescription_id(fn_in[1]).kind = "keccak"
    /\ ret.exc = "ValueError"

\* C9: the signature bytes are empty for "", for "0x" and for the omitted
\* argument; for a string h of hex digits they are the same for h and for
\* "0x" + h, namely the bytes h spells when its length is even.
C9_SignatureNormalized ==
    fn = "Insertar.sig_bytes"
    => /\ (fn_in = <<>> \/ fn_in = <<<<>>>> \/ fn_in = <<Str_0x>>)
          => ret = Returned("raw", <<>>)
       /\ (fn_in # <<>> /\ AllHexDigits(fn_in[1]))
          => /\ ret = sig_bytes_of(Str_0x \o fn_in[1])
             /\ Len(fn_in[1]) % 2 = 0 => ret = Returned("raw", PairBytes(fn_in[1]))

C9_Witness ==
    /\ fn = "Insertar.sig_bytes"
    /\ fn_in = << <<"a", "b", "c", "d">> >>
    /\ ret = Returned("raw", <<171, 205>>)

\* C10: the two copies of parse_prescription_id agree on every argument
\* (same key, or both raise), so the key a reader run passes to
\* getPrescription is the key the writer's copy gives for the same id string,
\* and the key a writer run passes to registerPrescription is the key the
\* reader's copy gives.
C10_SameKey ==
    /\ fn = "Get.parse_prescription_id"
       => ret = Insertar_parse_prescription_id(fn_in[1])
    /\ fn = "Insertar.parse_prescription_id"
       => ret = Get_parse_prescription_id(fn_in[1])
    /\ (tool = "Get" /\ Has("contract") /\ pc # "args" /\ Len(argv) = 1)
       => /\ Has("presc_id") <=> Insertar_parse_prescription_id(argv[1]).exc = "none"
          /\ \A i \in DOMAIN net :
                net[i].op = "call"
                => net[i].arg[2] = Insertar_parse_prescription_id(argv[1])
    /\ WriterParsed
       => /\ Has("presc") => locals.presc = Get_parse_prescription_id(argv[1])
          /\ Get_parse_prescription_id(argv[1]).exc # "none" => ~Has("presc")
          /\ \A i \in DOMAIN net :
                net[i].op = "send_raw_transaction"
                => net[i].arg[1].args[1] = Get_parse_prescription_id(argv[1])

C10_Witness ==
    /\ tool = "Get"
    /\ argv = <<Presc001>>
    /\ Asked("call")
    /\ locals.presc_id = Returned("keccak", <<80, 82, 69, 83, 67, 45, 48, 48, 49>>)

===========================================================================
